---- MODULE Spec2Model ----
(***************************************************************************)
(* Remediation Engine and Change Journal of NVCheckup                      *)
(* (internal/remediate: engine.go, journal.go, actions_windows.go).        *)
(*                                                                         *)
(* State: the journal file, the wall clock, the Engine's dryRun flag, the   *)
(* Windows settings the catalog actions touch, and a record of the last    *)
(* call (its inputs, results and effects), and the position of the running *)
(* fix or undo command.                                                    *)
(*                                                                         *)
(* Spec        the Engine with any Executor: what each Run call returns is *)
(*             an input of the action that makes the call, and a journal   *)
(*             read or write either works or fails leaving the file alone. *)
(* SpecSys     the Engine with the DefaultExecutor: the commands read and  *)
(*             change the settings.                                        *)
(* SpecJournal the Journal, used directly and by a live Engine, with       *)
(*             os.WriteFile followed step by step.                         *)
(* SpecMock    the Engine with a scripted recording Executor.              *)
(* SpecConc    two processes on one journal file.                          *)
(* SpecCLI     the fix and undo commands on a Windows machine, with the    *)
(*             DefaultExecutor.                                            *)
(***************************************************************************)
EXTENDS Integers, Sequences, FiniteSets, TLC

\* ------------------------------------------------------------------ bounds
MaxEntries == 2      \* journal entries a behaviour may create
MaxTime == 2         \* distinct wall-clock instants time.Now() may return

\* ------------------------------------------------------------------ time
\* time.Time: the wall instant t and whether a monotonic reading is attached
\* (time.Now() attaches one, a value parsed from JSON has none).
ZeroTime == [t |-> 0, mono |-> FALSE]

Now(clock) == [t |-> clock, mono |-> TRUE]

\* Time.Equal: compares the instants
TimeEqual(a, b) == a.t = b.t

\* Time.IsZero
IsZero(a) == a.t = 0

\* ------------------------------------------------------------------ catalog
highPerformanceGUID == "8c5e7fda-e8bf-4a96-9a85-a6e23a8c635c"

balancedGUID == "381b4222-f694-41f0-9685-ff5bb260df2e"

getAvailableActions ==
    << [ID |-> "set-high-performance",
        Title |-> "Switch to High Performance power plan",
        Description |->
          "Sets the Windows power plan to 'High performance' using powercfg. This prevents CPU throttling and ensures maximum GPU performance.",
        Risk |-> "low", NeedsAdmin |-> TRUE, NeedsReboot |-> FALSE],
       [ID |-> "disable-hags",
        Title |-> "Disable Hardware-Accelerated GPU Scheduling (HAGS)",
        Description |->
          "Sets the HwSchMode registry value to 1 to disable HAGS. Some games and applications experience stuttering or instability with HAGS enabled.",
        Risk |-> "medium", NeedsAdmin |-> TRUE, NeedsReboot |-> TRUE],
       [ID |-> "disable-game-mode",
        Title |-> "Disable Windows Game Mode",
        Description |->
          "Sets the AutoGameModeEnabled registry value to 0 to disable Game Mode. Game Mode can cause frame pacing issues in some titles.",
        Risk |-> "low", NeedsAdmin |-> FALSE, NeedsReboot |-> FALSE] >>

\* an action descriptor a caller builds itself, with an ID the catalog lacks
CustomAction ==
    [ID |-> "test-action", Title |-> "Test Action", Description |-> "",
     Risk |-> "low", NeedsAdmin |-> TRUE, NeedsReboot |-> TRUE]

Actions == {getAvailableActions[i] : i \in 1..Len(getAvailableActions)} \cup {CustomAction}

ActionIDs == {a.ID : a \in Actions}

\* ------------------------------------------------------------------ executor
\* Executor.Run(name, args...) -> (output, err).  The Engine works with any
\* Executor, so what a call returns is an input of the model.  An output is
\* kept as its text (raw) and as the lines and whitespace-separated fields of
\* that text, which is what the parsers of the handlers look at.
NoOutput == [raw |-> "", lines |-> <<>>]

ErrOutput ==
    [raw |-> "ERROR: Access is denied.",
     lines |-> << <<"ERROR:", "Access", "is", "denied.">> >>]

\* powercfg /getactivescheme
SchemeOutput(guid) ==
    [raw |-> guid, lines |-> << <<"Power", "Scheme", "GUID:", guid, "(Plan)">> >>]

\* reg query <key> /v <name>
RegOutput(name, val) ==
    [raw |-> val, lines |-> << <<"HKEY_LOCAL_MACHINE">>, <<name, "REG_DWORD", val>> >>]

RunOK(output) == [output |-> output, err |-> "nil"]

RunFailed == [output |-> ErrOutput, err |-> "exit status 1"]

\* what the first (query) call of a handler may return: a failure, the text
\* the command prints, or text of another shape
QueryResults(id) ==
    CASE id = "set-high-performance" ->
           {RunFailed, RunOK(SchemeOutput(balancedGUID)),
            RunOK(SchemeOutput(highPerformanceGUID)), RunOK(ErrOutput)}
      [] id = "disable-hags" ->
           {RunFailed, RunOK(RegOutput("HwSchMode", "0x1")), RunOK(ErrOutput)}
      [] id = "disable-game-mode" ->
           {RunFailed, RunOK(RegOutput("AutoGameModeEnabled", "0x0"))}
      [] OTHER -> {RunFailed}

\* what a mutating call may return
SetResults == {RunFailed, RunOK(NoOutput)}

\* ------------------------------------------------------------------ parsing
RECURSIVE FieldAfter(_, _, _)
FieldAfter(fields, marker, i) ==
    IF i > Len(fields) THEN ""
    ELSE IF fields[i] = marker
         THEN (IF i + 1 <= Len(fields) THEN fields[i + 1] ELSE "")
         ELSE FieldAfter(fields, marker, i + 1)

RECURSIVE Flatten(_)
Flatten(lines) == IF lines = <<>> THEN <<>> ELSE Head(lines) \o Flatten(Tail(lines))

\* the first field after the "GUID: " marker, "" when there is none
parsePowerSchemeGUID(output) == FieldAfter(Flatten(output.lines), "GUID:", 1)

\* strings.TrimPrefix(val, "0x") on the values a DWORD query prints
TrimHexPrefix(v) ==
    CASE v = "0x0" -> "0" [] v = "0x1" -> "1" [] v = "0x2" -> "2" [] OTHER -> v

RECURSIVE parseRegLines(_, _)
parseRegLines(lines, valueName) ==
    IF lines = <<>> THEN ""
    ELSE LET line == Head(lines) IN
         IF Len(line) >= 1 /\ line[1] = valueName /\ Len(line) >= 3
         THEN TrimHexPrefix(line[Len(line)])
         ELSE parseRegLines(Tail(lines), valueName)

\* parseRegDwordValue with the bug of taking the whole output for the value
\* when no line starts with valueName
parseRegDwordValue_WholeOutput(output, valueName) ==
    IF parseRegLines(output.lines, valueName) = "" THEN output.raw
    ELSE parseRegLines(output.lines, valueName)

\* the last field of the first line that starts with valueName, 0x removed
parseRegDwordValue(output, valueName) == parseRegLines(output.lines, valueName)

\* ------------------------------------------------------------------ handlers
\* A handler returns (output, undoInfo, err); the model adds the commands it
\* issued.  q is what the Executor returns to the query, s what it returns
\* to the mutating command.
\* actionSetHighPerformance with the bug of issuing the switch a second time
\* when it failed
actionSetHighPerformance_Retries(q, s) ==
    LET previousGUID == parsePowerSchemeGUID(q.output)
        query == <<"powercfg", "/getactivescheme">>
        switch == <<"powercfg", "/setactive", highPerformanceGUID>>
    IN IF q.err # "nil"
       THEN [output |-> q.output.raw, undoInfo |-> "",
             err |-> "failed to get current power plan", calls |-> <<query>>]
       ELSE IF previousGUID = ""
       THEN [output |-> q.output.raw, undoInfo |-> "",
             err |-> "could not parse current power plan GUID", calls |-> <<query>>]
       ELSE IF previousGUID = highPerformanceGUID
       THEN [output |-> "High performance plan is already active",
             undoInfo |-> previousGUID, err |-> "nil", calls |-> <<query>>]
       ELSE IF s.err # "nil"
       THEN [output |-> s.output.raw, undoInfo |-> "",
             err |-> "failed to set high performance plan",
             calls |-> <<query, switch, switch>>]
       ELSE [output |-> "Switched power plan to High performance",
             undoInfo |-> previousGUID, err |-> "nil", calls |-> <<query, switch>>]

actionSetHighPerformance(q, s) ==
    LET previousGUID == parsePowerSchemeGUID(q.output)
        query == <<"powercfg", "/getactivescheme">>
        switch == <<"powercfg", "/setactive", highPerformanceGUID>>
    IN IF q.err # "nil"
       THEN [output |-> q.output.raw, undoInfo |-> "",
             err |-> "failed to get current power plan", calls |-> <<query>>]
       ELSE IF previousGUID = ""
       THEN [output |-> q.output.raw, undoInfo |-> "",
             err |-> "could not parse current power plan GUID", calls |-> <<query>>]
       ELSE IF previousGUID = highPerformanceGUID
       THEN [output |-> "High performance plan is already active",
             undoInfo |-> previousGUID, err |-> "nil", calls |-> <<query>>]
       ELSE IF s.err # "nil"
       THEN [output |-> s.output.raw, undoInfo |-> "",
             err |-> "failed to set high performance plan", calls |-> <<query, switch>>]
       ELSE [output |-> "Switched power plan to High performance",
             undoInfo |-> previousGUID, err |-> "nil", calls |-> <<query, switch>>]

\* actionDisableHAGS with the bug of returning the baseline when the
\* mutating command failed
actionDisableHAGS_KeepsBaseline(q, s) ==
    LET parsed == parseRegDwordValue(q.output, "HwSchMode")
        currentVal == IF q.err = "nil" /\ parsed # "" THEN parsed ELSE "2"
        cmds == << <<"reg", "query", "HwSchMode">>, <<"reg", "add", "HwSchMode", "1">> >>
    IN IF s.err # "nil"
       THEN [output |-> s.output.raw, undoInfo |-> currentVal,
             err |-> "failed to set HwSchMode to 1", calls |-> cmds]
       ELSE [output |-> "Set HwSchMode to 1 (HAGS disabled). Reboot required.",
             undoInfo |-> currentVal, err |-> "nil", calls |-> cmds]

actionDisableHAGS(q, s) ==
    LET parsed == parseRegDwordValue(q.output, "HwSchMode")
        currentVal == IF q.err = "nil" /\ parsed # "" THEN parsed ELSE "2"
        cmds == << <<"reg", "query", "HwSchMode">>, <<"reg", "add", "HwSchMode", "1">> >>
    IN IF s.err # "nil"
       THEN [output |-> s.output.raw, undoInfo |-> "",
             err |-> "failed to set HwSchMode to 1", calls |-> cmds]
       ELSE [output |-> "Set HwSchMode to 1 (HAGS disabled). Reboot required.",
             undoInfo |-> currentVal, err |-> "nil", calls |-> cmds]

\* actionDisableGameMode with the bug of having no default baseline
actionDisableGameMode_NoDefault(q, s) ==
    LET parsed == parseRegDwordValue(q.output, "AutoGameModeEnabled")
        currentVal == IF q.err = "nil" THEN parsed ELSE ""
        cmds == << <<"reg", "query", "AutoGameModeEnabled">>,
                   <<"reg", "add", "AutoGameModeEnabled", "0">> >>
    IN IF s.err # "nil"
       THEN [output |-> s.output.raw, undoInfo |-> "",
             err |-> "failed to set AutoGameModeEnabled to 0", calls |-> cmds]
       ELSE [output |-> "Set AutoGameModeEnabled to 0 (Game Mode disabled).",
             undoInfo |-> currentVal, err |-> "nil", calls |-> cmds]

actionDisableGameMode(q, s) ==
    LET parsed == parseRegDwordValue(q.output, "AutoGameModeEnabled")
        currentVal == IF q.err = "nil" /\ parsed # "" THEN parsed ELSE "1"
        cmds == << <<"reg", "query", "AutoGameModeEnabled">>,
                   <<"reg", "add", "AutoGameModeEnabled", "0">> >>
    IN IF s.err # "nil"
       THEN [output |-> s.output.raw, undoInfo |-> "",
             err |-> "failed to set AutoGameModeEnabled to 0", calls |-> cmds]
       ELSE [output |-> "Set AutoGameModeEnabled to 0 (Game Mode disabled).",
             undoInfo |-> currentVal, err |-> "nil", calls |-> cmds]

\* applyAction with the bug of a switch whose default runs the last handler
applyAction_FallsThrough(id, q, s) ==
    CASE id = "set-high-performance" -> actionSetHighPerformance(q, s)
      [] id = "disable-hags" -> actionDisableHAGS(q, s)
      [] OTHER -> actionDisableGameMode(q, s)

applyAction(id, q, s) ==
    CASE id = "set-high-performance" -> actionSetHighPerformance(q, s)
      [] id = "disable-hags" -> actionDisableHAGS(q, s)
      [] id = "disable-game-mode" -> actionDisableGameMode(q, s)
      [] OTHER -> [output |-> "", undoInfo |-> "", err |-> "unknown remediation action",
                   calls |-> <<>>]

\* the command undoAction issues, <<>> for an ID it does not know
UndoCommand(id, undoInfo) ==
    CASE id = "set-high-performance" -> <<"powercfg", "/setactive", undoInfo>>
      [] id = "disable-hags" -> <<"reg", "add", "HwSchMode", undoInfo>>
      [] id = "disable-game-mode" -> <<"reg", "add", "AutoGameModeEnabled", undoInfo>>
      [] OTHER -> <<>>

undoAction(id, undoInfo, s) ==
    IF UndoCommand(id, undoInfo) = <<>>
    THEN [err |-> "unknown action for undo", calls |-> <<>>]
    ELSE [err |-> s.err, calls |-> <<UndoCommand(id, undoInfo)>>]

\* ------------------------------------------------------------------ journal
\* types.ChangeJournalEntry
NewEntry(id, title, at, success, output, undoInfo) ==
    [ActionID |-> id, Title |-> title, AppliedAt |-> at, Success |-> success,
     Output |-> output, UndoInfo |-> undoInfo,
     UndoneAt |-> ZeroTime, UndoSuccess |-> FALSE, UndoOutput |-> ""]

\* json.Marshal of one entry: the keys written.  The omitempty keys are left
\* out when empty or false; a time.Time is a struct and is always written.
\* the keys written, with the bug of a tag that keeps UndoInfo out of the file
JSONKeys_NoUndoInfo(e) ==
    {"action_id", "title", "applied_at", "success", "undone_at"}
      \cup (IF e.Output # "" THEN {"output"} ELSE {})
      \cup (IF e.UndoSuccess THEN {"undo_success"} ELSE {})
      \cup (IF e.UndoOutput # "" THEN {"undo_output"} ELSE {})

JSONKeys(e) ==
    {"action_id", "title", "applied_at", "success", "undone_at"}
      \cup (IF e.Output # "" THEN {"output"} ELSE {})
      \cup (IF e.UndoInfo # "" THEN {"undo_info"} ELSE {})
      \cup (IF e.UndoSuccess THEN {"undo_success"} ELSE {})
      \cup (IF e.UndoOutput # "" THEN {"undo_output"} ELSE {})

\* a time is written as its RFC 3339 text: the instant, no monotonic reading
MarshalTime(tm) == tm.t

UnmarshalTime(v) == [t |-> v, mono |-> FALSE]

\* Output of a command as a machine with a non-English code page prints it:
\* the bytes of the text are not valid UTF-8 (<FC> stands for the byte 0xFC)
LocalizedOutput == "FEHLER: Zugriff verweigert f<FC>r den Schl<FC>ssel."

\* json.Marshal of a string: coerced to valid UTF-8, each invalid byte
\* replaced by the replacement rune U+FFFD
ToValidUTF8(str) ==
    IF str = LocalizedOutput
    THEN "FEHLER: Zugriff verweigert f<U+FFFD>r den Schl<U+FFFD>ssel."
    ELSE str

MarshalEntry(e) ==
    [k \in JSONKeys(e) |->
        CASE k = "action_id" -> ToValidUTF8(e.ActionID)
          [] k = "title" -> ToValidUTF8(e.Title)
          [] k = "applied_at" -> MarshalTime(e.AppliedAt)
          [] k = "success" -> e.Success
          [] k = "output" -> ToValidUTF8(e.Output)
          [] k = "undo_info" -> ToValidUTF8(e.UndoInfo)
          [] k = "undone_at" -> MarshalTime(e.UndoneAt)
          [] k = "undo_success" -> e.UndoSuccess
          [] k = "undo_output" -> ToValidUTF8(e.UndoOutput)]

\* json.Unmarshal of one object: a key that is absent leaves the zero value
UnmarshalEntry(o) ==
    [ActionID |-> o["action_id"], Title |-> o["title"],
     AppliedAt |-> UnmarshalTime(o["applied_at"]), Success |-> o["success"],
     Output |-> IF "output" \in DOMAIN o THEN o["output"] ELSE "",
     UndoInfo |-> IF "undo_info" \in DOMAIN o THEN o["undo_info"] ELSE "",
     UndoneAt |-> UnmarshalTime(o["undone_at"]),
     UndoSuccess |-> IF "undo_success" \in DOMAIN o THEN o["undo_success"] ELSE FALSE,
     UndoOutput |-> IF "undo_output" \in DOMAIN o THEN o["undo_output"] ELSE ""]

\* The journal file: missing, zero bytes, or a JSON array of objects.
MissingFile == [kind |-> "missing", data |-> <<>>]

EmptyFile == [kind |-> "empty", data |-> <<>>]

JSONFile(objs) == [kind |-> "json", data |-> objs]

\* a file that holds a proper, non-empty prefix of a JSON text: what a write
\* that did not complete leaves
PartialFile == [kind |-> "partial", data |-> <<>>]

\* Journal.Read with the bug of parsing a file of zero bytes
Read_ParsesEmpty(f, r) ==
    IF r # "ok" THEN [entries |-> <<>>, err |-> "failed to read journal file"]
    ELSE IF f.kind = "missing" THEN [entries |-> <<>>, err |-> "nil"]
    ELSE IF f.kind # "json" THEN [entries |-> <<>>, err |-> "failed to parse journal file"]
    ELSE [entries |-> [i \in 1..Len(f.data) |-> UnmarshalEntry(f.data[i])], err |-> "nil"]

\* Journal.Read with the bug of taking a file it cannot parse for an empty
\* journal
Read_IgnoresMalformed(f, r) ==
    IF r # "ok" THEN [entries |-> <<>>, err |-> "failed to read journal file"]
    ELSE IF f.kind # "json" THEN [entries |-> <<>>, err |-> "nil"]
    ELSE [entries |-> [i \in 1..Len(f.data) |-> UnmarshalEntry(f.data[i])], err |-> "nil"]

\* Journal.Read; r is whether os.ReadFile works
Read(f, r) ==
    IF r # "ok" THEN [entries |-> <<>>, err |-> "failed to read journal file"]
    ELSE IF f.kind = "missing" THEN [entries |-> <<>>, err |-> "nil"]
    ELSE IF f.kind = "empty" THEN [entries |-> <<>>, err |-> "nil"]
    ELSE IF f.kind # "json" THEN [entries |-> <<>>, err |-> "failed to parse journal file"]
    ELSE [entries |-> [i \in 1..Len(f.data) |-> UnmarshalEntry(f.data[i])], err |-> "nil"]

\* Journal.Write; w is whether MkdirAll and the opening of the file work
Write(f, entries, w) ==
    IF w # "ok" THEN [file |-> f, err |-> "failed to write journal file"]
    ELSE [file |-> JSONFile([i \in 1..Len(entries) |-> MarshalEntry(entries[i])]),
          err |-> "nil"]

\* Journal.Append with the bug of writing the new entry alone
JournalAppend_Overwrites(f, entry, r, w) ==
    LET wr == Write(f, <<entry>>, w)
    IN [file |-> wr.file, err |-> wr.err, reads |-> 0, writes |-> 1]

\* Journal.Append with the bug of putting the new entry first
JournalAppend_Prepends(f, entry, r, w) ==
    LET rd == Read(f, r)
        wr == Write(f, <<entry>> \o rd.entries, w)
    IN IF rd.err # "nil"
       THEN [file |-> f, err |-> "failed to read existing journal", reads |-> 1, writes |-> 0]
       ELSE [file |-> wr.file, err |-> wr.err, reads |-> 1, writes |-> 1]

\* Journal.Append
JournalAppend(f, entry, r, w) ==
    LET rd == Read(f, r)
        wr == Write(f, rd.entries \o <<entry>>, w)
    IN IF rd.err # "nil"
       THEN [file |-> f, err |-> "failed to read existing journal", reads |-> 1, writes |-> 0]
       ELSE [file |-> wr.file, err |-> wr.err, reads |-> 1, writes |-> 1]

\* the entries the file holds, as a reader of the file sees them
Entries(f) == Read(f, "ok").entries

\* ------------------------------------------------------------------ state
VARIABLES
    dryRun,     \* Engine.dryRun
    file,       \* the journal file in Engine.journalDir
    clock,      \* the wall clock read by time.Now()
    napplied,   \* live Apply calls whose journal write succeeded
    last,       \* the last Engine call: inputs, outputs and effects
    sys,        \* the Windows settings the catalog actions touch: now (cur)
                \* and as they were before each journaled Apply (atApply)
    cli         \* the fix or undo command under way, and what the commands
                \* have done so far

vars == <<dryRun, file, clock, napplied, last, sys, cli>>

\* The settings of a machine.  A registry value may be absent.
Settings ==
    [plan : {balancedGUID, highPerformanceGUID},
     hags : {"absent", "0", "1", "2"},
     gameMode : {"absent", "0", "1"}]

\* a machine as installed: Balanced plan, HAGS and Game Mode values not set
DefaultSettings == [plan |-> balancedGUID, hags |-> "absent", gameMode |-> "absent"]

NoResult ==
    [ActionID |-> "", Success |-> FALSE, Output |-> "", Error |-> "",
     UndoInfo |-> "", Timestamp |-> ZeroTime, DryRun |-> FALSE]

NoEntry == NewEntry("", "", ZeroTime, FALSE, "", "")

\* what applyAction returned when no handler ran
NoHandler == [output |-> "", undoInfo |-> "", err |-> "nil", calls |-> <<>>]

\* the record of a call; the fields a call does not use keep these values
NoCall ==
    [op |-> "none", dryRun |-> FALSE, action |-> "", entry |-> NoEntry, src |-> 0,
     result |-> NoResult, err |-> "nil", cmdErr |-> "nil", journalErr |-> "nil", calls |-> <<>>,
     handler |-> NoHandler, query |-> RunOK(NoOutput), entries |-> <<>>, pc |-> "done",
     io |-> <<"ok", "ok">>, pending |-> MissingFile,
     procs |-> <<>>, overlap |-> FALSE, undone |-> {},
     reads |-> 0, writes |-> 0, fileBefore |-> MissingFile, preview |-> <<>>]

\* no command is under way and none has run: the flags and the answer of
\* the command, its position, the Engine calls it has made (events), and for
\* each journal index how often the undo command passed that entry to
\* Engine.Undo (passed), how often the entry was still unmarked afterwards
\* (unmarked), and whether an Apply came after an Undo (mixed)
NoCommand ==
    [cmd |-> "none", pc |-> "idle", out |-> "", id |-> "", dry |-> FALSE, all |-> FALSE,
     answer |-> "", target |-> 0, events |-> <<>>, fileAtStart |-> MissingFile,
     passed |-> [i \in 1..MaxEntries |-> 0], unmarked |-> [i \in 1..MaxEntries |-> 0],
     undone |-> FALSE, mixed |-> FALSE]

Init ==
    /\ dryRun \in BOOLEAN
    /\ file = MissingFile
    /\ clock = 1
    /\ napplied = 0
    /\ last = NoCall
    /\ sys = [cur |-> DefaultSettings, atApply |-> <<>>]
    /\ cli = NoCommand

\* NewEngine(executor, journalDir, dryRun): every CLI command builds its own
\* Engine over the same journal directory
NewEngine(d) ==
    /\ dryRun' = d
    /\ last' = [NoCall EXCEPT !.op = "NewEngine", !.dryRun = d, !.fileBefore = file]
    /\ UNCHANGED <<file, clock, napplied, sys>>

\* the wall clock advances between two readings
Tick ==
    /\ clock < MaxTime
    /\ clock' = clock + 1
    /\ last' = [NoCall EXCEPT !.op = "Tick", !.dryRun = dryRun, !.fileBefore = file]
    /\ UNCHANGED <<dryRun, file, napplied, sys>>

\* the lines Engine.Preview writes on a condition
AdminLine == <<"  Requires:      ", "elevated/admin privileges">>

RebootLine == <<"  Note:          ", "a reboot is required after applying">>

DryRunLine == <<"  Mode:          ", "DRY RUN (no changes will be made)">>

\* Engine.Preview with the bug of leaving the dry-run line out
PreviewText_NoDryRun(action, d) ==
    << <<"Action: ", action.Title>>, <<"  ", action.Description>>,
       <<"  Risk level:    ", action.Risk>> >>
      \o (IF action.NeedsAdmin THEN <<AdminLine>> ELSE <<>>)
      \o (IF action.NeedsReboot THEN <<RebootLine>> ELSE <<>>)

\* Engine.Preview: the lines of the text, each as its format and argument
PreviewText(action, d) ==
    << <<"Action: ", action.Title>>, <<"  ", action.Description>>,
       <<"  Risk level:    ", action.Risk>> >>
      \o (IF action.NeedsAdmin THEN <<AdminLine>> ELSE <<>>)
      \o (IF action.NeedsReboot THEN <<RebootLine>> ELSE <<>>)
      \o (IF d THEN <<DryRunLine>> ELSE <<>>)

Preview(action) ==
    /\ last' = [NoCall EXCEPT !.op = "Preview", !.dryRun = dryRun, !.action = action.ID,
                              !.fileBefore = file, !.preview = PreviewText(action, dryRun)]
    /\ UNCHANGED <<dryRun, file, clock, napplied, sys>>

\* Engine.Apply in dry-run mode with the bug of journaling the simulated result
ApplyDryRun_Journals(action) ==
    LET result == [ActionID |-> action.ID, Success |-> TRUE,
                   Output |-> "[DRY RUN] Would apply", Error |-> "",
                   UndoInfo |-> "", Timestamp |-> Now(clock), DryRun |-> dryRun]
        j == JournalAppend(file, NewEntry(action.ID, action.Title, result.Timestamp,
                                          TRUE, result.Output, ""), "ok", "ok")
    IN /\ dryRun
       /\ Len(Entries(file)) < MaxEntries
       /\ file' = j.file
       /\ last' = [NoCall EXCEPT !.op = "Apply", !.dryRun = dryRun, !.action = action.ID,
                     !.fileBefore = file, !.result = result, !.err = "nil",
                     !.reads = j.reads, !.writes = j.writes]
       /\ UNCHANGED <<dryRun, clock, napplied>>

\* Engine.Apply in dry-run mode
ApplyDryRun(action) ==
    /\ dryRun
    /\ last' = [NoCall EXCEPT !.op = "Apply", !.dryRun = dryRun, !.action = action.ID,
                  !.fileBefore = file,
                  !.result = [ActionID |-> action.ID, Success |-> TRUE,
                              Output |-> "[DRY RUN] Would apply", Error |-> "",
                              UndoInfo |-> "", Timestamp |-> Now(clock), DryRun |-> dryRun],
                  !.err = "nil"]
    /\ UNCHANGED <<dryRun, file, clock, napplied>>

\* Engine.Apply in live mode with the bug of returning before the journal
\* write when the action failed
ApplyLive_SkipsFailed(action, q, s, r, w) ==
    LET h == applyAction(action.ID, q, s)
        result == [ActionID |-> action.ID, Success |-> h.err = "nil",
                   Output |-> h.output,
                   Error |-> IF h.err = "nil" THEN "" ELSE h.err,
                   UndoInfo |-> IF h.err = "nil" THEN h.undoInfo ELSE "",
                   Timestamp |-> Now(clock), DryRun |-> dryRun]
        entry == NewEntry(action.ID, action.Title, result.Timestamp, result.Success,
                          result.Output, result.UndoInfo)
        j == IF h.err = "nil" THEN JournalAppend(file, entry, r, w)
             ELSE [file |-> file, err |-> "nil", reads |-> 0, writes |-> 0]
    IN /\ ~dryRun
       /\ Len(Entries(file)) < MaxEntries
       /\ file' = j.file
       /\ napplied' = IF j.err = "nil" THEN napplied + 1 ELSE napplied
       /\ last' = [NoCall EXCEPT !.op = "Apply", !.dryRun = dryRun, !.action = action.ID,
                     !.fileBefore = file, !.result = result,
                     !.err = IF j.err = "nil" THEN "nil"
                             ELSE "action applied but journal write failed",
                     !.cmdErr = h.err, !.journalErr = j.err,
                     !.handler = h, !.query = IF h.calls = <<>> THEN @ ELSE q,
                     !.calls = h.calls, !.reads = j.reads, !.writes = j.writes]
       /\ UNCHANGED <<dryRun, clock>>

\* Engine.Apply in live mode with the bug of returning the error of the
\* action, and a bare result when the journal write failed
ApplyLive_ReturnsActionErr(action, q, s, r, w) ==
    LET h == applyAction(action.ID, q, s)
        result == [ActionID |-> action.ID, Success |-> h.err = "nil",
                   Output |-> h.output,
                   Error |-> IF h.err = "nil" THEN "" ELSE h.err,
                   UndoInfo |-> IF h.err = "nil" THEN h.undoInfo ELSE "",
                   Timestamp |-> Now(clock), DryRun |-> dryRun]
        entry == NewEntry(action.ID, action.Title, result.Timestamp, result.Success,
                          result.Output, result.UndoInfo)
        j == JournalAppend(file, entry, r, w)
    IN /\ ~dryRun
       /\ Len(Entries(file)) < MaxEntries
       /\ file' = j.file
       /\ napplied' = IF j.err = "nil" THEN napplied + 1 ELSE napplied
       /\ last' = [NoCall EXCEPT !.op = "Apply", !.dryRun = dryRun, !.action = action.ID,
                     !.fileBefore = file,
                     !.result = IF j.err = "nil" THEN result
                                ELSE [NoResult EXCEPT !.ActionID = action.ID,
                                                      !.Timestamp = Now(clock)],
                     !.err = IF j.err # "nil" THEN "action applied but journal write failed"
                             ELSE h.err,
                     !.cmdErr = h.err, !.journalErr = j.err,
                     !.handler = h, !.query = IF h.calls = <<>> THEN @ ELSE q,
                     !.calls = h.calls, !.reads = j.reads, !.writes = j.writes]
       /\ UNCHANGED <<dryRun, clock>>

\* Engine.Apply in live mode
ApplyLive(action, q, s, r, w) ==
    LET h == applyAction(action.ID, q, s)
        result == [ActionID |-> action.ID, Success |-> h.err = "nil",
                   Output |-> h.output,
                   Error |-> IF h.err = "nil" THEN "" ELSE h.err,
                   UndoInfo |-> IF h.err = "nil" THEN h.undoInfo ELSE "",
                   Timestamp |-> Now(clock), DryRun |-> dryRun]
        entry == NewEntry(action.ID, action.Title, result.Timestamp, result.Success,
                          result.Output, result.UndoInfo)
        j == JournalAppend(file, entry, r, w)
    IN /\ ~dryRun
       /\ Len(Entries(file)) < MaxEntries
       /\ file' = j.file
       /\ napplied' = IF j.err = "nil" THEN napplied + 1 ELSE napplied
       /\ last' = [NoCall EXCEPT !.op = "Apply", !.dryRun = dryRun, !.action = action.ID,
                     !.fileBefore = file, !.result = result,
                     !.err = IF j.err = "nil" THEN "nil"
                             ELSE "action applied but journal write failed",
                     !.cmdErr = h.err, !.journalErr = j.err,
                     !.handler = h, !.query = IF h.calls = <<>> THEN @ ELSE q,
                     !.calls = h.calls, !.reads = j.reads, !.writes = j.writes]
       /\ UNCHANGED <<dryRun, clock>>

Apply(action, q, s, r, w) == ApplyDryRun(action) \/ ApplyLive(action, q, s, r, w)

\* the scan of Engine.Undo with the bug of comparing the ActionID alone
RECURSIVE FirstMatch_ByID(_, _, _)
FirstMatch_ByID(entries, entry, i) ==
    IF i > Len(entries) THEN 0
    ELSE IF entries[i].ActionID = entry.ActionID THEN i
         ELSE FirstMatch_ByID(entries, entry, i + 1)

\* the index of the first entry with the ActionID and the AppliedAt instant
\* of entry, 0 when there is none (the scan of Engine.Undo)
RECURSIVE FirstMatch(_, _, _)
FirstMatch(entries, entry, i) ==
    IF i > Len(entries) THEN 0
    ELSE IF entries[i].ActionID = entry.ActionID
            /\ TimeEqual(entries[i].AppliedAt, entry.AppliedAt)
         THEN i
         ELSE FirstMatch(entries, entry, i + 1)

\* the update of Engine.Undo with the bug of dropping the undone entry
MarkUndone_Removes(entries, entry, undoErr, at) ==
    LET i == FirstMatch(entries, entry, 1)
    IN IF i = 0 THEN entries
       ELSE SubSeq(entries, 1, i - 1) \o SubSeq(entries, i + 1, Len(entries))

\* the update of Engine.Undo with the bug of recording every undo as a success
MarkUndone_AlwaysOK(entries, entry, undoErr, at) ==
    LET i == FirstMatch(entries, entry, 1)
    IN IF i = 0 THEN entries
       ELSE [entries EXCEPT ![i] =
               [@ EXCEPT !.UndoneAt = at, !.UndoSuccess = TRUE,
                         !.UndoOutput = "successfully undone"]]

\* the update of Engine.Undo with the bug of marking the last entry when the
\* scan finds none
MarkUndone_MarksLast(entries, entry, undoErr, at) ==
    LET m == FirstMatch(entries, entry, 1)
        i == IF m = 0 THEN Len(entries) ELSE m
    IN IF i = 0 THEN entries
       ELSE [entries EXCEPT ![i] =
               [@ EXCEPT !.UndoneAt = at,
                         !.UndoSuccess = (undoErr = "nil"),
                         !.UndoOutput = IF undoErr # "nil" THEN undoErr
                                        ELSE "successfully undone"]]

\* the update Engine.Undo makes to the entries it read
MarkUndone(entries, entry, undoErr, at) ==
    LET i == FirstMatch(entries, entry, 1)
    IN IF i = 0 THEN entries
       ELSE [entries EXCEPT ![i] =
               [@ EXCEPT !.UndoneAt = at,
                         !.UndoSuccess = (undoErr = "nil"),
                         !.UndoOutput = IF undoErr # "nil" THEN undoErr
                                        ELSE "successfully undone"]]

\* the preconditions of Engine.Undo with the bug of checking Success first
UndoPrecondition_SuccessFirst(entry) ==
    IF ~entry.Success THEN "cannot undo: original action did not succeed"
    ELSE IF entry.UndoInfo = "" THEN "no undo information available"
    ELSE "nil"

\* Engine.Undo: the precondition the entry fails, "nil" when it passes both
UndoPrecondition(entry) ==
    IF entry.UndoInfo = "" THEN "no undo information available"
    ELSE IF ~entry.Success THEN "cannot undo: original action did not succeed"
    ELSE "nil"

\* Engine.Undo rejecting the entry
UndoRejected(entry, src) ==
    /\ UndoPrecondition(entry) # "nil"
    /\ last' = [NoCall EXCEPT !.op = "Undo", !.dryRun = dryRun, !.action = entry.ActionID,
                  !.entry = entry, !.src = src, !.fileBefore = file,
                  !.err = UndoPrecondition(entry)]
    /\ UNCHANGED <<dryRun, file, clock, napplied>>

\* Engine.Undo in dry-run mode with the bug of testing dryRun before the
\* preconditions
UndoDryRun_NoChecks(entry, src) ==
    /\ dryRun
    /\ last' = [NoCall EXCEPT !.op = "Undo", !.dryRun = dryRun, !.action = entry.ActionID,
                  !.entry = entry, !.src = src, !.fileBefore = file, !.err = "nil"]
    /\ UNCHANGED <<dryRun, file, clock, napplied>>

\* Engine.Undo in dry-run mode
UndoDryRun(entry, src) ==
    /\ UndoPrecondition(entry) = "nil"
    /\ dryRun
    /\ last' = [NoCall EXCEPT !.op = "Undo", !.dryRun = dryRun, !.action = entry.ActionID,
                  !.entry = entry, !.src = src, !.fileBefore = file, !.err = "nil"]
    /\ UNCHANGED <<dryRun, file, clock, napplied>>

\* Engine.Undo in live mode
UndoLive(entry, src, s, r, w) ==
    LET u == undoAction(entry.ActionID, entry.UndoInfo, s)
        rd == Read(file, r)
        wr == Write(file, MarkUndone(rd.entries, entry, u.err, Now(clock)), w)
    IN /\ UndoPrecondition(entry) = "nil"
       /\ ~dryRun
       /\ file' = IF rd.err # "nil" THEN file ELSE wr.file
       /\ last' = [NoCall EXCEPT !.op = "Undo", !.dryRun = dryRun, !.action = entry.ActionID,
                     !.entry = entry, !.src = src, !.fileBefore = file,
                     !.err = IF rd.err # "nil" \/ wr.err # "nil"
                             THEN "undo executed but failed to update journal"
                             ELSE u.err,
                     !.cmdErr = u.err,
                     !.journalErr = IF rd.err # "nil" THEN rd.err ELSE wr.err,
                     !.calls = u.calls,
                     !.reads = 1, !.writes = IF rd.err # "nil" THEN 0 ELSE 1]
       /\ UNCHANGED <<dryRun, clock, napplied>>

Undo(entry, src, s, r, w) ==
    UndoRejected(entry, src) \/ UndoDryRun(entry, src) \/ UndoLive(entry, src, s, r, w)

\* entries a caller builds itself instead of reading them from the journal:
\* with AppliedAt left at its zero value, as in a literal that does not set
\* it, and one that has the ID and the instant a journal entry may have
CraftedEntries ==
    {NewEntry(id, "Test Action", ZeroTime, ok, "", u) :
        id \in {"disable-hags", "test-action"}, ok \in BOOLEAN, u \in {"", "2"}}
      \cup {NewEntry("test-action", "Test Action", UnmarshalTime(1), TRUE, "", "2")}

\* the journal I/O of one call: <<os.ReadFile, MkdirAll/os.WriteFile>>
IOCases == {<<"ok", "ok">>, <<"err", "ok">>, <<"ok", "err">>}

\* the inputs a call draws from S: every member when the call gets as far as
\* using the input, one member (it makes no difference which) when it does not
Drawn(used, S) == IF used THEN S ELSE {CHOOSE x \in S : TRUE}

UndoRuns(entry) == ~dryRun /\ UndoPrecondition(entry) = "nil"

\* the actions the next Apply is given: a behaviour applies one catalog
\* action, any number of times, and the custom action besides it
Applicable ==
    {a \in Actions :
        \A i \in 1..Len(Entries(file)) :
            a.ID = CustomAction.ID \/ Entries(file)[i].ActionID \in {a.ID, CustomAction.ID}}

\* Under Spec the Executor is any Executor: what it returns is an input and
\* the settings are not followed.
Next ==
    \/ \E d \in BOOLEAN : NewEngine(d) /\ UNCHANGED cli
    \/ Tick /\ UNCHANGED cli
    \/ \E a \in Actions : Preview(a) /\ UNCHANGED cli
    \/ \E a \in Applicable :
         \E q \in Drawn(~dryRun, QueryResults(a.ID)), s \in Drawn(~dryRun, SetResults),
            io \in Drawn(~dryRun, IOCases) :
               Apply(a, q, s, io[1], io[2]) /\ UNCHANGED <<sys, cli>>
    \/ \E i \in 1..Len(Entries(file)) :
         \E s \in Drawn(UndoRuns(Entries(file)[i]), SetResults),
            io \in Drawn(UndoRuns(Entries(file)[i]), IOCases) :
               Undo(Entries(file)[i], i, s, io[1], io[2]) /\ UNCHANGED <<sys, cli>>
    \/ \E e \in CraftedEntries :
         \E s \in Drawn(UndoRuns(e), SetResults), io \in Drawn(UndoRuns(e), IOCases) :
               Undo(e, 0, s, io[1], io[2]) /\ UNCHANGED <<sys, cli>>

Spec == Init /\ [][Next]_vars

\* ------------------------------------------------------------- real settings
\* Under SpecSys the Executor is the DefaultExecutor on a Windows machine:
\* the commands of the handlers read and change the settings.

\* how reg query prints a DWORD
HexOf(v) == CASE v = "0" -> "0x0" [] v = "1" -> "0x1" [] v = "2" -> "0x2" [] OTHER -> v

\* the query command of a handler, run on settings st: powercfg prints the
\* active scheme, reg query prints the value and fails when there is none
RunQuery(id, st) ==
    CASE id = "set-high-performance" -> RunOK(SchemeOutput(st.plan))
      [] id = "disable-hags" ->
           IF st.hags = "absent" THEN RunFailed
           ELSE RunOK(RegOutput("HwSchMode", HexOf(st.hags)))
      [] id = "disable-game-mode" ->
           IF st.gameMode = "absent" THEN RunFailed
           ELSE RunOK(RegOutput("AutoGameModeEnabled", HexOf(st.gameMode)))
      [] OTHER -> RunFailed

\* the settings after command cmd has run with success on settings st
RunCommand(st, cmd) ==
    IF cmd[1] = "powercfg" /\ cmd[2] = "/setactive" THEN [st EXCEPT !.plan = cmd[3]]
    ELSE IF cmd[1] = "reg" /\ cmd[2] = "add" /\ cmd[3] = "HwSchMode"
    THEN [st EXCEPT !.hags = cmd[4]]
    ELSE IF cmd[1] = "reg" /\ cmd[2] = "add" /\ cmd[3] = "AutoGameModeEnabled"
    THEN [st EXCEPT !.gameMode = cmd[4]]
    ELSE st

\* the settings after the commands of a call: the queries change nothing, the
\* last command is the mutating one and acts when it succeeded (s)
RunAll(st, calls, mutates, s) ==
    IF mutates /\ calls # <<>> /\ s.err = "nil" THEN RunCommand(st, calls[Len(calls)])
    ELSE st

InitSys ==
    /\ dryRun = FALSE
    /\ file = MissingFile
    /\ clock = 1
    /\ napplied = 0
    /\ last = NoCall
    /\ sys \in [cur : Settings, atApply : {<<>>}]
    /\ cli = NoCommand

\* a live Apply of a catalog action
SysApply(a, s) ==
    LET q == RunQuery(a.ID, sys.cur)
        h == applyAction(a.ID, q, s)
    IN /\ ApplyLive(a, q, s, "ok", "ok")
       /\ sys' = [cur |-> RunAll(sys.cur, h.calls, Len(h.calls) = 2, s),
                  atApply |-> Append(sys.atApply, sys.cur)]
       /\ UNCHANGED cli

\* a live Undo of the i-th entry of the journal
SysUndo(i, s) ==
    LET e == Entries(file)[i]
        u == undoAction(e.ActionID, e.UndoInfo, s)
    IN /\ Undo(e, i, s, "ok", "ok")
       /\ sys' = [sys EXCEPT !.cur = RunAll(@, u.calls, UndoRuns(e), s)]
       /\ UNCHANGED cli

TickSys == Tick /\ UNCHANGED cli

NextSys ==
    \/ TickSys
    \/ \E i \in 1..Len(getAvailableActions), s \in SetResults :
          SysApply(getAvailableActions[i], s)
    \/ \E i \in 1..Len(Entries(file)), s \in SetResults : SysUndo(i, s)

SpecSys == InitSys /\ [][NextSys]_vars

\* ------------------------------------------------------------- scripted mock
\* Under SpecMock the Executor is a recording mock with a script: it returns
\* ("2", nil) to the first call made on it and ("", nil) to every later one.
\* Each Engine call gets a fresh mock.
MockOutput == [raw |-> "2", lines |-> << <<"2">> >>]

MockScript == [first |-> RunOK(MockOutput), later |-> RunOK(NoOutput)]

InitMock ==
    /\ dryRun = FALSE
    /\ file = MissingFile
    /\ clock = 1
    /\ napplied = 0
    /\ last = NoCall
    /\ sys = [cur |-> DefaultSettings, atApply |-> <<>>]
    /\ cli = NoCommand

\* a live Apply on the mock: the query is the first call, the set the second
MockApply(a) ==
    /\ ApplyLive(a, MockScript.first, MockScript.later, "ok", "ok")
    /\ UNCHANGED <<sys, cli>>

\* a live Undo on the mock: the undo command is the first call; the error of
\* the mock is nil on every call of the script
MockUndo(i) ==
    /\ Undo(Entries(file)[i], i, MockScript.first, "ok", "ok")
    /\ UNCHANGED <<sys, cli>>

TickMock == Tick /\ UNCHANGED cli

NextMock ==
    \/ TickMock
    \/ \E i \in 1..Len(getAvailableActions) : MockApply(getAvailableActions[i])
    \/ \E i \in 1..Len(Entries(file)) : MockUndo(i)

SpecMock == InitMock /\ [][NextMock]_vars

\* ------------------------------------------------------------- journal alone
\* Under SpecJournal callers use the Journal, directly and through a live
\* Engine, and os.WriteFile is followed step by step: it opens the file truncating it, writes the text,
\* and the write may fail, or the process may stop, after any of the steps.

\* entries as callers pass them: one as Engine.Apply builds it, a failed one
\* with the output of a localized command, one read back and undone
SampleEntries ==
    {NewEntry("disable-hags", "Disable Hardware-Accelerated GPU Scheduling (HAGS)",
              Now(1), TRUE, "Set HwSchMode to 1 (HAGS disabled). Reboot required.", "2"),
     NewEntry("disable-hags", "Disable Hardware-Accelerated GPU Scheduling (HAGS)",
              Now(1), FALSE, LocalizedOutput, ""),
     [NewEntry("set-high-performance", "Switch to High Performance power plan",
               UnmarshalTime(1), TRUE, "Switched power plan to High performance",
               balancedGUID)
        EXCEPT !.UndoneAt = UnmarshalTime(MaxTime), !.UndoSuccess = TRUE,
               !.UndoOutput = "successfully undone"]}

\* the lists of at most MaxEntries sample entries
EntryLists == UNION {[1..k -> SampleEntries] : k \in 0..MaxEntries}

InitJournal ==
    /\ dryRun = FALSE
    /\ file \in {MissingFile, EmptyFile}
    /\ clock = 1
    /\ napplied = 0
    /\ last = NoCall
    /\ sys = [cur |-> DefaultSettings, atApply |-> <<>>]
    /\ cli = NoCommand

\* Journal.Read by a caller
JournalRead(r) ==
    LET rd == Read(file, r)
    IN /\ last.pc = "done"
       /\ last' = [NoCall EXCEPT !.op = "Read", !.entries = rd.entries, !.err = rd.err,
                                 !.fileBefore = file, !.reads = 1, !.io = <<r, "ok">>]
       /\ UNCHANGED <<dryRun, file, clock, napplied, sys, cli>>

\* Journal.Write up to the opening of the file: MkdirAll, MarshalIndent and
\* the open of os.WriteFile, which truncates; w is whether they work.  The
\* text to write is kept in pending.
JournalWriteStart(entries, w) ==
    /\ last.pc = "done"
    /\ file' = IF w = "ok" THEN EmptyFile ELSE Write(file, entries, w).file
    /\ last' = [NoCall EXCEPT !.op = "Write", !.entries = entries, !.fileBefore = file,
                              !.err = Write(file, entries, w).err,
                              !.pending = Write(file, entries, w).file,
                              !.pc = IF w = "ok" THEN "writing" ELSE "done"]
    /\ UNCHANGED <<dryRun, clock, napplied, sys, cli>>

\* Journal.Append up to the opening of the file: Journal.Read, then
\* Journal.Write of the entries read and the new one
JournalAppendStart(entry, r, w) ==
    LET j == JournalAppend(file, entry, r, w)
    IN /\ last.pc = "done"
       /\ Len(Entries(file)) < MaxEntries
       /\ file' = IF j.err = "nil" THEN EmptyFile ELSE j.file
       /\ last' = [NoCall EXCEPT !.op = "Append", !.entry = entry,
                                 !.fileBefore = file, !.err = j.err, !.reads = j.reads,
                                 !.pending = j.file,
                                 !.pc = IF j.err = "nil" THEN "writing" ELSE "done"]
       /\ UNCHANGED <<dryRun, clock, napplied, sys, cli>>

\* a live Engine.Apply up to the opening of the file by the Journal.Write
\* inside its Journal.Append
EngineApplyStart(action, q, s, r, w) ==
    LET h == applyAction(action.ID, q, s)
        result == [ActionID |-> action.ID, Success |-> h.err = "nil",
                   Output |-> h.output,
                   Error |-> IF h.err = "nil" THEN "" ELSE h.err,
                   UndoInfo |-> IF h.err = "nil" THEN h.undoInfo ELSE "",
                   Timestamp |-> Now(clock), DryRun |-> dryRun]
        entry == NewEntry(action.ID, action.Title, result.Timestamp, result.Success,
                          result.Output, result.UndoInfo)
        j == JournalAppend(file, entry, r, w)
    IN /\ last.pc = "done"
       /\ Len(Entries(file)) < MaxEntries
       /\ file' = IF j.err = "nil" THEN EmptyFile ELSE j.file
       /\ last' = [NoCall EXCEPT !.op = "Apply", !.action = action.ID, !.entry = entry,
                     !.fileBefore = file, !.result = result,
                     !.err = IF j.err = "nil" THEN "nil"
                             ELSE "action applied but journal write failed",
                     !.cmdErr = h.err, !.journalErr = j.err,
                     !.handler = h, !.query = q, !.calls = h.calls,
                     !.reads = j.reads, !.io = <<r, w>>, !.pending = j.file,
                     !.pc = IF j.err = "nil" THEN "writing" ELSE "done"]
       /\ UNCHANGED <<dryRun, clock, napplied, sys, cli>>

\* a live Engine.Undo of the i-th entry of the journal up to the opening of
\* the file by its Journal.Write
EngineUndoStart(i, s, r, w) ==
    LET entry == Entries(file)[i]
        u == undoAction(entry.ActionID, entry.UndoInfo, s)
        rd == Read(file, r)
        wr == Write(file, MarkUndone(rd.entries, entry, u.err, Now(clock)), w)
        jerr == IF rd.err # "nil" THEN rd.err ELSE wr.err
    IN /\ last.pc = "done"
       /\ UndoPrecondition(entry) = "nil"
       /\ file' = IF jerr = "nil" THEN EmptyFile ELSE file
       /\ last' = [NoCall EXCEPT !.op = "Undo", !.action = entry.ActionID,
                     !.entry = entry, !.src = i, !.fileBefore = file,
                     !.err = IF jerr # "nil"
                             THEN "undo executed but failed to update journal"
                             ELSE u.err,
                     !.cmdErr = u.err, !.journalErr = jerr, !.calls = u.calls,
                     !.reads = 1, !.io = <<r, w>>, !.pending = wr.file,
                     !.pc = IF jerr = "nil" THEN "writing" ELSE "done"]
       /\ UNCHANGED <<dryRun, clock, napplied, sys, cli>>

\* what the call under way returns when its os.WriteFile fails
WriteFailure(op) ==
    CASE op = "Apply" -> "action applied but journal write failed"
      [] op = "Undo" -> "undo executed but failed to update journal"
      [] OTHER -> "failed to write journal file"

\* os.WriteFile has written part of the text
WriteSome ==
    /\ last.pc = "writing" /\ file = EmptyFile
    /\ file' = PartialFile
    /\ UNCHANGED <<dryRun, clock, napplied, last, sys, cli>>

\* os.WriteFile returns: all of the text written (d = "ok"), or an error of
\* the write or the close with the file left as far as it got
WriteEnd(d) ==
    /\ last.pc = "writing"
    /\ file' = IF d = "ok" THEN last.pending ELSE file
    /\ last' = [last EXCEPT !.pc = "done", !.writes = 1,
                            !.err = IF d = "ok" THEN @ ELSE WriteFailure(last.op),
                            !.journalErr = IF d = "ok" THEN @
                                           ELSE "failed to write journal file"]
    /\ UNCHANGED <<dryRun, clock, napplied, sys, cli>>

\* the process stops inside os.WriteFile and is started again
Stop ==
    /\ last.pc = "writing"
    /\ last' = [NoCall EXCEPT !.op = "Restart", !.fileBefore = file]
    /\ UNCHANGED <<dryRun, file, clock, napplied, sys, cli>>

NextJournal ==
    \/ \E r \in {"ok", "err"} : JournalRead(r)
    \/ \E entries \in EntryLists, w \in {"ok", "err"} : JournalWriteStart(entries, w)
    \/ \E entry \in SampleEntries, io \in IOCases : JournalAppendStart(entry, io[1], io[2])
    \/ \E i \in 1..Len(getAvailableActions), s \in SetResults :
         EngineApplyStart(getAvailableActions[i],
                          RunQuery(getAvailableActions[i].ID, DefaultSettings), s, "ok", "ok")
    \/ \E i \in 1..Len(Entries(file)), s \in SetResults, io \in IOCases :
         EngineUndoStart(i, s, io[1], io[2])
    \/ WriteSome
    \/ \E d \in {"ok", "err"} : WriteEnd(d)
    \/ Stop

SpecJournal == InitJournal /\ [][NextJournal]_vars

\* ------------------------------------------------------------ two processes
\* Under SpecConc two processes work on one journal file.  Each runs the
\* journal part of a live Engine.Apply (Journal.Append) or of a live
\* Engine.Undo: a Read, then the change made in memory, then a Write of the
\* whole list.  No lock is taken, so the steps of the two interleave.  Each
\* Write is taken as a whole here.
Procs == {"A", "B"}

IdleProc == [pc |-> "idle", op |-> "none", pending |-> MissingFile, key |-> <<>>]

\* the (ActionID, AppliedAt) an entry is known by
KeyOf(e) == <<e.ActionID, e.AppliedAt.t>>

\* the entries Engine.Apply hands to Append, for an action that succeeded
AppliedEntries ==
    {NewEntry(getAvailableActions[i].ID, getAvailableActions[i].Title, Now(clock), TRUE,
              "applied", "1") : i \in 2..3}

\* Appends begun so far, returned or not
Begun == napplied + Cardinality({p \in Procs : last.procs[p].op = "Append"})

\* another process is between its Read and its Write
MidCall(p) == \E o \in Procs \ {p} : last.procs[o].pc = "read"

InitConc ==
    /\ dryRun = FALSE
    /\ file = MissingFile
    /\ clock = 1
    /\ napplied = 0
    /\ last = [NoCall EXCEPT !.op = "Conc", !.procs = [p \in Procs |-> IdleProc]]
    /\ sys = [cur |-> DefaultSettings, atApply |-> <<>>]
    /\ cli = NoCommand

\* Journal.Append by process p, up to the end of its Read
AppendRead(p, entry) ==
    /\ last.procs[p].pc = "idle"
    /\ Begun < MaxEntries
    /\ last' = [last EXCEPT !.procs[p] =
                   [pc |-> "read", op |-> "Append",
                    pending |-> JournalAppend(file, entry, "ok", "ok").file,
                    key |-> KeyOf(entry)],
                 !.overlap = @ \/ MidCall(p), !.fileBefore = file]
    /\ UNCHANGED <<dryRun, file, clock, napplied, sys, cli>>

\* Engine.Undo of the i-th entry by process p, up to the change it makes to
\* the entries it read; s is what the Executor returned to the undo command
UndoRead(p, i, s) ==
    LET e == Entries(file)[i]
        u == undoAction(e.ActionID, e.UndoInfo, s)
    IN /\ last.procs[p].pc = "idle"
       /\ UndoPrecondition(e) = "nil"
       /\ last' = [last EXCEPT !.procs[p] =
                      [pc |-> "read", op |-> "Undo",
                       pending |-> Write(file, MarkUndone(Read(file, "ok").entries, e,
                                                          u.err, Now(clock)), "ok").file,
                       key |-> KeyOf(e)],
                    !.overlap = @ \/ MidCall(p), !.fileBefore = file]
       /\ UNCHANGED <<dryRun, file, clock, napplied, sys, cli>>

\* the Journal.Write that ends the call of process p, which then returns nil
\* (Undo: the error of the undo command)
WriteBack(p) ==
    /\ last.procs[p].pc = "read"
    /\ file' = last.procs[p].pending
    /\ napplied' = IF last.procs[p].op = "Append" THEN napplied + 1 ELSE napplied
    /\ last' = [last EXCEPT !.procs[p] = IdleProc,
                 !.undone = IF last.procs[p].op = "Undo"
                            THEN @ \cup {last.procs[p].key} ELSE @,
                 !.fileBefore = file]
    /\ UNCHANGED <<dryRun, clock, sys, cli>>

NextConc ==
    \/ \E p \in Procs, entry \in AppliedEntries : AppendRead(p, entry)
    \/ \E p \in Procs, i \in 1..Len(Entries(file)), s \in SetResults : UndoRead(p, i, s)
    \/ \E p \in Procs : WriteBack(p)

SpecConc == InitConc /\ [][NextConc]_vars

\* ------------------------------------------------------------- the commands
\* Under SpecCLI the fix and undo commands run, one after the other, on a
\* Windows machine.  Each command builds its own Engine with the
\* DefaultExecutor over the same journal directory.
MaxPasses == 2       \* times the undo command is run for one journal entry

\* what the user may type at a prompt
Answers == {"yes", "Y", "no"}

\* strings.ToLower(strings.TrimSpace(answer))
NormalizeAnswer(a) ==
    CASE a \in {"yes", "Yes", "YES"} -> "yes"
      [] a \in {"y", "Y"} -> "y"
      [] a \in {"no", "No", "NO"} -> "no"
      [] OTHER -> a

\* values of the --id flag: none, two catalog IDs, an ID the catalog lacks
FlagIDs == {"", "set-high-performance", "disable-hags", "test-action"}

\* values of the --dry-run and --all flags
FlagSets == {<<FALSE, FALSE>>, <<TRUE, FALSE>>, <<FALSE, TRUE>>}

\* the index in ListAvailable() of the action with the ID, 0 when none has it
RECURSIVE FindAction(_, _)
FindAction(id, i) ==
    IF i > Len(getAvailableActions) THEN 0
    ELSE IF getAvailableActions[i].ID = id THEN i
         ELSE FindAction(id, i + 1)

\* the scan of undoCmd with the bug of not looking at UndoneAt
RECURSIVE SelectUndo_IgnoresUndone(_, _, _)
SelectUndo_IgnoresUndone(entries, id, i) ==
    IF i > Len(entries) THEN 0
    ELSE IF entries[i].ActionID = id /\ entries[i].Success THEN i
         ELSE SelectUndo_IgnoresUndone(entries, id, i + 1)

\* the scan of undoCmd: the index of the first entry with the ID, Success
\* and a zero UndoneAt, 0 when there is none
RECURSIVE SelectUndo(_, _, _)
SelectUndo(entries, id, i) ==
    IF i > Len(entries) THEN 0
    ELSE IF entries[i].ActionID = id /\ entries[i].Success /\ IsZero(entries[i].UndoneAt)
         THEN i
         ELSE SelectUndo(entries, id, i + 1)

\* the machine the commands run on: the settings Windows starts with, the
\* registry values present
CLIMachines == {[plan |-> balancedGUID, hags |-> "2", gameMode |-> "1"]}

InitCLI ==
    /\ dryRun = FALSE
    /\ file = MissingFile
    /\ clock = 1
    /\ napplied = 0
    /\ last = NoCall
    /\ sys \in [cur : CLIMachines, atApply : {<<>>}]
    /\ cli = NoCommand

\* fixCmd up to the call of Engine.Preview: the flags, NewEngine,
\* ListAvailable, the list mode, the search for the action
FixStart(id, dry, all) ==
    /\ cli.pc = "idle"
    /\ NewEngine(dry)
    /\ cli' = [cli EXCEPT !.cmd = "fix", !.id = id, !.dry = dry, !.all = all,
                          !.answer = "", !.events = <<>>, !.fileAtStart = file,
                          !.target = FindAction(id, 1),
                          !.out = IF id = "" \/ all THEN "listed"
                                  ELSE IF FindAction(id, 1) = 0 THEN "unknown action"
                                  ELSE "",
                          !.pc = IF id = "" \/ all \/ FindAction(id, 1) = 0 THEN "idle"
                                 ELSE "preview"]

\* fixCmd with the bug of going on to the prompt in a dry run
FixPreview_NoDryRunReturn ==
    /\ cli.cmd = "fix" /\ cli.pc = "preview"
    /\ Preview(getAvailableActions[cli.target])
    /\ cli' = [cli EXCEPT !.events = Append(@, <<"Preview", getAvailableActions[cli.target].ID>>),
                          !.pc = "prompt"]

\* fixCmd prints Engine.Preview of the action and, in a dry run, returns
FixPreview ==
    /\ cli.cmd = "fix" /\ cli.pc = "preview"
    /\ Preview(getAvailableActions[cli.target])
    /\ cli' = [cli EXCEPT !.events = Append(@, <<"Preview", getAvailableActions[cli.target].ID>>),
                          !.out = IF cli.dry THEN "dry run" ELSE "",
                          !.pc = IF cli.dry THEN "idle" ELSE "prompt"]

\* the user answers the prompt of the command under way; anything but yes or
\* y ends the command
Answer(a) ==
    /\ cli.pc = "prompt"
    /\ cli' = [cli EXCEPT !.answer = a,
                          !.out = IF NormalizeAnswer(a) \in {"yes", "y"} THEN "" ELSE "aborted",
                          !.pc = IF NormalizeAnswer(a) \notin {"yes", "y"} THEN "idle"
                                 ELSE IF cli.cmd = "fix" THEN "apply" ELSE "undo"]
    /\ UNCHANGED <<dryRun, file, clock, napplied, last, sys>>

\* fixCmd calls Engine.Apply and reports; s is whether the mutating command
\* works
FixApply(s) ==
    LET a == getAvailableActions[cli.target]
        q == RunQuery(a.ID, sys.cur)
        h == applyAction(a.ID, q, s)
    IN /\ cli.cmd = "fix" /\ cli.pc = "apply"
       /\ Apply(a, q, s, "ok", "ok")
       /\ sys' = IF dryRun THEN sys
                 ELSE [cur |-> RunAll(sys.cur, h.calls, Len(h.calls) = 2, s),
                       atApply |-> Append(sys.atApply, sys.cur)]
       /\ cli' = [cli EXCEPT !.events = Append(@, <<"Apply", a.ID>>),
                             !.out = IF h.err = "nil" THEN "applied" ELSE "failed",
                             !.mixed = @ \/ cli.undone,
                             !.pc = "idle"]

\* undoCmd up to its prompt: NewEngine, Journal.Read, the list mode, the
\* search for the entry
UndoStart(id) ==
    LET rd == Read(file, "ok")
        i == SelectUndo(rd.entries, id, 1)
    IN /\ cli.pc = "idle"
       /\ i # 0 => cli.passed[i] < MaxPasses
       /\ NewEngine(FALSE)
       /\ cli' = [cli EXCEPT !.cmd = "undo", !.id = id, !.dry = FALSE, !.all = FALSE,
                             !.answer = "", !.events = <<>>, !.fileAtStart = file,
                             !.target = IF rd.entries = <<>> \/ id = "" THEN 0 ELSE i,
                             !.out = IF rd.err # "nil" THEN "journal error"
                                     ELSE IF rd.entries = <<>> THEN "no changes"
                                     ELSE IF id = "" THEN "listed"
                                     ELSE IF i = 0 THEN "no undoable entry"
                                     ELSE "",
                             !.pc = IF rd.err # "nil" \/ rd.entries = <<>> \/ id = "" \/ i = 0
                                    THEN "idle" ELSE "prompt"]

\* undoCmd passes the entry it found to Engine.Undo
UndoCall(s, r, w) ==
    LET e == Entries(file)[cli.target]
        u == undoAction(e.ActionID, e.UndoInfo, s)
    IN /\ cli.cmd = "undo" /\ cli.pc = "undo"
       /\ Undo(e, cli.target, s, r, w)
       /\ sys' = [sys EXCEPT !.cur = RunAll(@, u.calls, UndoRuns(e), s)]
       /\ cli' = [cli EXCEPT !.events = Append(@, <<"Undo", e.ActionID>>),
                             !.passed[cli.target] = @ + 1,
                             !.unmarked[cli.target] =
                                 IF IsZero(Entries(file')[cli.target].UndoneAt)
                                 THEN @ + 1 ELSE @,
                             !.undone = TRUE,
                             !.out = IF r = "ok" /\ w = "ok" /\ u.err = "nil"
                                     THEN "undone" ELSE "error",
                             !.pc = "idle"]

TickCLI == Tick /\ UNCHANGED cli

NextCLI ==
    \/ TickCLI
    \/ \E id \in FlagIDs, fl \in FlagSets : FixStart(id, fl[1], fl[2])
    \/ FixPreview
    \/ \E a \in Answers : Answer(a)
    \/ \E s \in SetResults : FixApply(s)
    \/ \E id \in FlagIDs : UndoStart(id)
    \/ \E s \in SetResults, io \in IOCases : UndoCall(s, io[1], io[2])

SpecCLI == InitCLI /\ [][NextCLI]_vars

\* ------------------------------------------------------------------ claims
\* the journal after the last call and before it
J == Entries(file)

JBefore == Entries(last.fileBefore)

\* the fields of an entry set when Apply creates it
Creation(e) == <<e.ActionID, e.Title, e.AppliedAt, e.Success, e.Output, e.UndoInfo>>

\* the fields of an entry set by Undo
UndoFields(e) == <<e.UndoneAt, e.UndoSuccess, e.UndoOutput>>

LiveApply == last.op = "Apply" /\ ~last.dryRun

\* a live Undo that got past the preconditions
LiveUndo == last.op = "Undo" /\ ~last.dryRun /\ UndoPrecondition(last.entry) = "nil"

C3_ApplyThenRead ==
    (LiveApply /\ last.err = "nil" /\ last.result.Success) =>
        /\ Len(J) = Len(JBefore) + 1
        /\ SubSeq(J, 1, Len(JBefore)) = JBefore
        /\ J[Len(J)].ActionID = last.action
        /\ J[Len(J)].Success
        /\ J[Len(J)].UndoInfo = last.result.UndoInfo
        /\ J[Len(J)].Output = last.result.Output
        /\ TimeEqual(J[Len(J)].AppliedAt, last.result.Timestamp)
        /\ UndoFields(J[Len(J)]) = <<ZeroTime, FALSE, "">>

\* a successful live Apply onto a journal that already holds an undone entry
C3_Witness ==
    /\ LiveApply /\ last.err = "nil" /\ last.result.Success
    /\ Len(J) = 2 /\ ~IsZero(J[1].UndoneAt)

\* what C4 says of every rejected Undo: an error, no Executor call, the
\* journal neither read nor written
RejectedUndoIsInert ==
    /\ last.err # "nil"
    /\ last.calls = <<>>
    /\ last.reads = 0 /\ last.writes = 0
    /\ file = last.fileBefore

C5_FailedIsTerminal ==
    (last.op = "Undo" /\ last.src > 0) =>
        \A i \in 1..Len(JBefore) :
            ~JBefore[i].Success => UndoFields(J[i]) = UndoFields(JBefore[i])

C7_UndoOnlyOnce ==
    (last.op = "Undo" /\ last.src > 0 /\ ~IsZero(last.entry.UndoneAt)) =>
        /\ last.calls = <<>>
        /\ \A i \in 1..Len(JBefore) :
              ~IsZero(JBefore[i].UndoneAt) => UndoFields(J[i]) = UndoFields(JBefore[i])

\* the entry the scan of Undo stops at
Matched == FirstMatch(JBefore, last.entry, 1)

\* undoAction ran once: the one command of the action, with the stored
\* UndoInfo (no command for an ID undoAction does not know)
UndoRanOnce ==
    last.calls = IF UndoCommand(last.entry.ActionID, last.entry.UndoInfo) = <<>>
                 THEN <<>>
                 ELSE <<UndoCommand(last.entry.ActionID, last.entry.UndoInfo)>>

\* what C8 says the journal and the return value show after a live Undo
UndoRecorded ==
    /\ UndoRanOnce
    /\ TimeEqual(J[Matched].UndoneAt, Now(clock)) /\ ~IsZero(J[Matched].UndoneAt)
    /\ J[Matched].UndoSuccess = (last.cmdErr = "nil")
    /\ J[Matched].UndoOutput =
          IF last.cmdErr = "nil" THEN "successfully undone" ELSE last.cmdErr
    /\ last.err = last.cmdErr

C10_DryRunUndoNoOp ==
    (last.op = "Undo" /\ last.dryRun) =>
        /\ last.calls = <<>>
        /\ last.reads = 0 /\ last.writes = 0
        /\ file = last.fileBefore
        /\ (last.err = "nil") <=> (last.entry.UndoInfo # "" /\ last.entry.Success)

\* a dry-run Undo of an undoable entry read from the journal
C10_Witness ==
    /\ last.op = "Undo" /\ last.dryRun /\ last.src > 0
    /\ last.err = "nil" /\ last.entry.UndoInfo # "" /\ last.entry.Success

\* C11: a live Apply returns an error exactly when the journal append failed,
\* and that error is the wrapped journal error; whether or not it did, the
\* result carries what the handler returned (Success, Output, UndoInfo, the
\* error text in Error) and the handler's Executor calls have been made.
C11_JournalErrorOnly ==
    LiveApply =>
        /\ (last.err # "nil") <=> (last.journalErr # "nil")
        /\ last.err \in {"nil", "action applied but journal write failed"}
        /\ last.result.Success = (last.handler.err = "nil")
        /\ last.result.Error = IF last.handler.err = "nil" THEN "" ELSE last.handler.err
        /\ last.result.Output = last.handler.output
        /\ last.result.UndoInfo = last.handler.undoInfo
        /\ last.calls = last.handler.calls
        /\ last.result.Error # last.err

\* a live Apply that changed the setting and then failed to journal it
C11_Witness ==
    /\ LiveApply /\ last.journalErr # "nil" /\ last.err # "nil"
    /\ last.result.Success /\ last.result.UndoInfo # "" /\ Len(last.calls) = 2

\* the ID of the last call is one the dispatch of the platform does not know
UnknownAction ==
    last.action \notin {getAvailableActions[i].ID : i \in 1..Len(getAvailableActions)}

TargetValue ==
    CASE last.action = "set-high-performance" -> highPerformanceGUID
      [] last.action = "disable-hags" -> "1"
      [] last.action = "disable-game-mode" -> "0"
      [] OTHER -> ""

\* the current state, as the query of the last call showed it ("" when the
\* query failed or its output did not parse)
QueriedValue ==
    IF last.query.err # "nil" THEN ""
    ELSE CASE last.action = "set-high-performance" -> parsePowerSchemeGUID(last.query.output)
           [] last.action = "disable-hags" -> parseRegDwordValue(last.query.output, "HwSchMode")
           [] last.action = "disable-game-mode" ->
                parseRegDwordValue(last.query.output, "AutoGameModeEnabled")
           [] OTHER -> ""

\* C13: a live Apply of a catalog action whose query shows the setting
\* already at the target issues the query alone, and returns Success=true
\* with the unchanged current value as UndoInfo.
C13_IdempotentShortCircuit ==
    (LiveApply /\ ~UnknownAction /\ QueriedValue = TargetValue) =>
        /\ Len(last.calls) = 1
        /\ last.result.Success
        /\ last.result.UndoInfo = QueriedValue /\ last.result.UndoInfo # ""

\* C14: a handler that returns an error returns an empty undoInfo, so a
\* result with Success=false has an empty UndoInfo, and so has every journal
\* entry with Success=false.
C14_FailedNeverUndoable ==
    /\ \A i \in 1..Len(J) : ~J[i].Success => J[i].UndoInfo = ""
    /\ LiveApply =>
          /\ last.handler.err # "nil" => last.handler.undoInfo = ""
          /\ ~last.result.Success => last.result.UndoInfo = ""

\* a live Apply whose query gave a baseline and whose mutating command
\* failed, journaled
C14_Witness ==
    /\ LiveApply /\ last.action = "disable-hags" /\ QueriedValue # ""
    /\ Len(last.calls) = 2 /\ ~last.result.Success
    /\ last.journalErr = "nil" /\ ~J[Len(J)].Success /\ J[Len(J)].UndoInfo = ""

\* the setting an action touches, in settings st
SettingOf(id, st) ==
    CASE id = "set-high-performance" -> st.plan
      [] id = "disable-hags" -> st.hags
      [] id = "disable-game-mode" -> st.gameMode
      [] OTHER -> ""

\* C15: after a successful live Undo of the journal entry of a successful
\* live Apply, the setting of the action has the value it had before that
\* Apply, whatever that value was (a registry value that was absent, or one
\* whose query failed, included).
C15_RoundTrip ==
    (LiveUndo /\ last.src > 0 /\ last.err = "nil") =>
        SettingOf(last.action, sys.cur) = SettingOf(last.action, sys.atApply[last.src])

\* a call of the Journal that has returned
Returned(op) == last.op = op /\ last.pc = "done"

\* C16: Journal.Read of a missing file or of a file of zero bytes returns no
\* entries and no error, Journal.Read of a file that holds malformed JSON
\* returns the parse error and no entries, and Read leaves the file as it is.
C16_ReadTolerant ==
    Returned("Read") =>
        /\ file = last.fileBefore
        /\ (last.io[1] = "ok" /\ file.kind \in {"missing", "empty"}) =>
              (last.entries = <<>> /\ last.err = "nil")
        /\ (last.io[1] = "ok" /\ file.kind = "partial") =>
              (last.entries = <<>> /\ last.err = "failed to parse journal file")
        /\ (last.io[1] = "ok" /\ file.kind = "json") =>
              (Len(last.entries) = Len(file.data) /\ last.err = "nil")

\* Read of the journal a write that did not complete has left malformed
C16_Witness ==
    /\ Returned("Read") /\ last.io[1] = "ok" /\ file = PartialFile
    /\ last.err = "failed to parse journal file"

\* an entry as the file keeps it
AsStored(e) == UnmarshalEntry(MarshalEntry(e))

\* C17: an Append that returns nil leaves the journal with the entries it had
\* (none when the file was missing or empty), unchanged and in their order,
\* followed by the new entry.
C17_AppendAdds ==
    (Returned("Append") /\ last.err = "nil") =>
        /\ file.kind = "json"
        /\ Len(J) = Len(JBefore) + 1
        /\ SubSeq(J, 1, Len(JBefore)) = JBefore
        /\ J[Len(J)] = AsStored(last.entry)
        /\ J[Len(J)].ActionID = last.entry.ActionID
        /\ J[Len(J)].Success = last.entry.Success
        /\ TimeEqual(J[Len(J)].AppliedAt, last.entry.AppliedAt)

\* the second of two Appends of different entries
C17_Witness ==
    /\ Returned("Append") /\ last.err = "nil"
    /\ Len(J) = 2 /\ Len(JBefore) = 1 /\ J[1] # J[2]

\* two entries with equal values in every field (two times are equal when
\* they are the same instant, as Time.Equal has it)
SameFields(a, b) ==
    /\ a.ActionID = b.ActionID /\ a.Title = b.Title
    /\ TimeEqual(a.AppliedAt, b.AppliedAt) /\ a.Success = b.Success
    /\ a.Output = b.Output /\ a.UndoInfo = b.UndoInfo
    /\ TimeEqual(a.UndoneAt, b.UndoneAt) /\ a.UndoSuccess = b.UndoSuccess
    /\ a.UndoOutput = b.UndoOutput

\* an entry with every string as its valid UTF-8 form
Coerced(e) ==
    [e EXCEPT !.ActionID = ToValidUTF8(@), !.Title = ToValidUTF8(@),
              !.Output = ToValidUTF8(@), !.UndoInfo = ToValidUTF8(@),
              !.UndoOutput = ToValidUTF8(@)]

\* what Journal.Read returns after the Write that has just returned
ReadBack == Read(file, "ok")

\* C18 as claimed: after a Write of any list that returned nil, Read returns
\* a list of the same length whose entries have the values written in every
\* field, and a Write of the list read leaves the file as it is.
C18_Original ==
    (Returned("Write") /\ last.err = "nil") =>
        /\ ReadBack.err = "nil"
        /\ Len(ReadBack.entries) = Len(last.entries)
        /\ \A i \in 1..Len(last.entries) : SameFields(ReadBack.entries[i], last.entries[i])
        /\ Write(file, ReadBack.entries, "ok").file = file

\* C18 as amended: the strings come back as json.Marshal wrote them, which
\* is as they were when they are valid UTF-8 and with U+FFFD in the place of
\* every invalid byte when they are not; the rest is as claimed.
C18_RoundTrip ==
    (Returned("Write") /\ last.err = "nil") =>
        /\ ReadBack.err = "nil"
        /\ Len(ReadBack.entries) = Len(last.entries)
        /\ \A i \in 1..Len(last.entries) :
              /\ SameFields(ReadBack.entries[i], Coerced(last.entries[i]))
              /\ Coerced(last.entries[i]) = last.entries[i] =>
                    SameFields(ReadBack.entries[i], last.entries[i])
        /\ Write(file, ReadBack.entries, "ok").file = file

\* a Write of an entry as Apply builds it followed by an undone entry
C18_Witness ==
    /\ Returned("Write") /\ last.err = "nil" /\ Len(last.entries) = 2
    /\ last.entries[1].AppliedAt.mono /\ last.entries[1].UndoInfo # ""
    /\ ~IsZero(last.entries[2].UndoneAt) /\ last.entries[2].UndoSuccess
    /\ Len(ReadBack.entries) = 2

\* the file holds no entries or a JSON array of entries
FileValid == file.kind \in {"missing", "empty", "json"}

\* C19: whenever no Write is under way (a call has returned, or the process
\* has stopped inside a Write and been started again), the journal file is
\* missing, of zero length, or deserializes to an array of entries.
C19_FileAlwaysValid == last.pc = "done" => FileValid

\* text p has line l
HasLine(p, l) == \E i \in 1..Len(p) : p[i] = l

\* C20: Preview runs no command and leaves the journal alone; its text has
\* the title, the description and the risk level of the action, the admin
\* line exactly when NeedsAdmin, the reboot line exactly when NeedsReboot,
\* the DRY RUN line exactly when the Engine is in dry-run mode, and nothing
\* else.
C20_PreviewPure ==
    last.op = "Preview" =>
        /\ last.calls = <<>> /\ last.reads = 0 /\ last.writes = 0
        /\ file = last.fileBefore
        /\ \E a \in Actions :
              /\ a.ID = last.action
              /\ SubSeq(last.preview, 1, 3) =
                    << <<"Action: ", a.Title>>, <<"  ", a.Description>>,
                       <<"  Risk level:    ", a.Risk>> >>
              /\ HasLine(last.preview, AdminLine) <=> a.NeedsAdmin
              /\ HasLine(last.preview, RebootLine) <=> a.NeedsReboot
              /\ HasLine(last.preview, DryRunLine) <=> last.dryRun
              /\ Len(last.preview) = 3 + Cardinality({x \in {"a", "r", "d"} :
                    \/ x = "a" /\ a.NeedsAdmin
                    \/ x = "r" /\ a.NeedsReboot
                    \/ x = "d" /\ last.dryRun})

\* a Preview in dry-run mode, over a journal with an entry, of an action
\* that needs neither admin rights nor a reboot
C20_Witness ==
    /\ last.op = "Preview" /\ last.dryRun /\ last.action = "disable-game-mode"
    /\ Len(J) = 1 /\ Len(last.preview) = 4

\* what Scenario B expects of the call
ScenarioB ==
    /\ Len(last.calls) = 2
    /\ last.result.Success /\ last.result.UndoInfo = "2"
    /\ last.err = "nil"

\* a live Apply on the scripted mock
MockedApply == LiveApply /\ last.query = MockScript.first

\* C21 as claimed: on the mock that returns ("2", nil) and then ("", nil), a
\* live Apply of any catalog action makes the two calls and returns
\* Success=true with UndoInfo "2".
C21_Original == MockedApply => ScenarioB

\* C21 as amended: that is so for disable-hags, where "2" is the default
\* baseline taken because the output "2" holds no HwSchMode line.  For
\* disable-game-mode the two calls are made and the result has Success=true
\* with the default baseline "1" as UndoInfo; set-high-performance finds no
\* GUID in "2", stops after the query and returns Success=false with an
\* empty UndoInfo.
C21_ScenarioB ==
    MockedApply =>
        CASE last.action = "disable-hags" ->
               /\ ScenarioB
               /\ last.calls = << <<"reg", "query", "HwSchMode">>,
                                  <<"reg", "add", "HwSchMode", "1">> >>
          [] last.action = "disable-game-mode" ->
               /\ Len(last.calls) = 2 /\ last.err = "nil"
               /\ last.result.Success /\ last.result.UndoInfo = "1"
          [] last.action = "set-high-performance" ->
               /\ last.calls = << <<"powercfg", "/getactivescheme">> >>
               /\ last.err = "nil"
               /\ ~last.result.Success /\ last.result.UndoInfo = ""
               /\ last.result.Error = "could not parse current power plan GUID"
          [] OTHER -> FALSE

\* Scenario B run on disable-hags, journaled after an earlier entry
C21_Witness ==
    /\ MockedApply /\ last.action = "disable-hags" /\ ScenarioB
    /\ Len(J) = 2 /\ J[2].UndoInfo = "2" /\ J[2].Success

\* the read-only commands of the handlers
IsQuery(cmd) == cmd = <<"powercfg", "/getactivescheme">> \/ (cmd[1] = "reg" /\ cmd[2] = "query")

\* no command occurs twice among the calls of the last Engine call
NoRepeat == \A i, k \in 1..Len(last.calls) : last.calls[i] = last.calls[k] => i = k

AllIdle == \A p \in Procs : last.procs[p].pc = "idle"

\* every Undo that returned left its mark on its entry
MarksKept ==
    \A k \in last.undone :
        \E i \in 1..Len(J) : KeyOf(J[i]) = k /\ ~IsZero(J[i].UndoneAt)

\* C23: as long as no call on the journal began while another was between
\* its Read and its Write, the journal holds one entry for each Append that
\* returned, no entry is ever dropped, and every Undo that returned has its
\* mark on its entry.  When calls interleave a Write puts back the list its
\* process read, and an entry or a mark written in between is lost
\* (C23_Witness).
C23_SequentialOnly ==
    /\ ~last.overlap =>
          /\ Len(J) = napplied
          /\ Len(JBefore) <= Len(J)
          /\ MarksKept
    /\ \A p \in Procs : last.procs[p].pc = "idle" => last.procs[p].pending = MissingFile

\* two Appends and an Undo have returned nil; the file holds one entry, and
\* the undone entry is not in it
C23_Witness ==
    /\ AllIdle /\ last.overlap
    /\ napplied = 2 /\ Len(J) = 1
    /\ last.undone # {} /\ ~MarksKept

\* a live Undo whose entry the journal does not hold
Vanished == LiveUndo /\ Matched = 0

C25_PersistenceError ==
    (LiveUndo /\ last.pc = "done" /\ last.journalErr # "nil") =>
        /\ UndoRanOnce
        /\ last.err = "undo executed but failed to update journal"
        /\ last.err # last.cmdErr
        /\ file = last.fileBefore

\* the journal file held malformed JSON when the last call began
OnMalformed == last.pc = "done" /\ last.fileBefore.kind = "partial"

\* C26: on a journal file that holds malformed JSON, Journal.Append returns
\* an error and leaves the file as it is, without a write; a live Apply
\* runs the commands of the action, returns the result of the handler and
\* the wrapped journal error, and leaves the file as it is.
C26_MalformedPreserved ==
    /\ (last.op = "Append" /\ OnMalformed) =>
          /\ last.err = "failed to read existing journal"
          /\ last.writes = 0
          /\ file = last.fileBefore
    /\ (last.op = "Apply" /\ OnMalformed) =>
          /\ last.calls = last.handler.calls /\ Len(last.calls) >= 1
          /\ last.result.Success = (last.handler.err = "nil")
          /\ last.result.Output = last.handler.output
          /\ last.result.UndoInfo = last.handler.undoInfo
          /\ last.err = "action applied but journal write failed"
          /\ last.writes = 0
          /\ file = last.fileBefore

\* a live Apply on a malformed journal: both commands ran, the result has
\* Success=true and the undo information, the journal error is returned, and
\* the file is as malformed as before
C26_Witness ==
    /\ last.op = "Apply" /\ OnMalformed /\ last.io = <<"ok", "ok">>
    /\ Len(last.calls) = 2 /\ last.result.Success /\ last.result.UndoInfo # ""
    /\ last.err # "nil" /\ file = PartialFile

\* the baseline a handler falls back on
DefaultBaseline(id) ==
    CASE id = "disable-hags" -> "2" [] id = "disable-game-mode" -> "1" [] OTHER -> ""

Called(what) == {i \in 1..Len(cli.events) : cli.events[i][1] = what}

\* C27: in the fix command Engine.Apply is called only for an action of
\* ListAvailable(), after Engine.Preview of that action and after the user
\* answered yes or y (in any letter case); with --dry-run the command calls
\* Engine.Preview at most and returns: no Executor call, no journal write.
C27_FixOrdering ==
    /\ last.op = "Apply" =>
          /\ cli.cmd = "fix"
          /\ FindAction(last.action, 1) # 0 /\ last.action = cli.id
          /\ cli.events = << <<"Preview", last.action>>, <<"Apply", last.action>> >>
          /\ NormalizeAnswer(cli.answer) \in {"yes", "y"}
          /\ ~cli.dry /\ ~last.dryRun
    /\ (cli.cmd = "fix" /\ cli.dry) =>
          /\ Called("Apply") = {}
          /\ cli.pc \in {"idle", "preview"}
          /\ last.calls = <<>> /\ last.reads = 0 /\ last.writes = 0
          /\ file = cli.fileAtStart

\* a fix command that applied a catalog action after the answer Y
C27_Witness ==
    /\ last.op = "Apply" /\ cli.answer = "Y" /\ cli.out = "applied"
    /\ Len(last.calls) = 2 /\ Len(J) = Len(JBefore) + 1

\* C29 as claimed: the undo command passes each journal entry to Engine.Undo
\* at most once.
C29_Original == \A i \in 1..MaxEntries : cli.passed[i] <= 1

\* C29 as amended: the entry the undo command passes to Engine.Undo is the
\* first of the journal with the requested ActionID, Success=true and a zero
\* UndoneAt, so an entry that carries the mark of an undo, failed or not, is
\* never passed again.  An entry is passed again exactly when an earlier
\* pass left it unmarked: the journal read or rewrite of Engine.Undo failed,
\* or the mark went to an earlier entry with the same ActionID and AppliedAt.
C29_UndoSelection ==
    /\ (last.op = "Undo" /\ cli.cmd = "undo") =>
          /\ last.src # 0 /\ last.src = SelectUndo(JBefore, cli.id, 1)
          /\ last.entry = JBefore[last.src]
          /\ last.entry.ActionID = cli.id /\ last.entry.Success
          /\ IsZero(last.entry.UndoneAt)
    /\ \A i \in 1..MaxEntries : cli.passed[i] <= 1 + cli.unmarked[i]
    /\ \A i \in 1..Len(J) :
          (cli.passed[i] >= 1 /\ cli.unmarked[i] = 0) =>
              (~IsZero(J[i].UndoneAt) /\ cli.passed[i] = 1)

\* the undo of the first entry failed and was recorded; the undo command,
\* run again for the action, found no entry to undo
C29_Witness ==
    /\ cli.cmd = "undo" /\ cli.pc = "idle" /\ cli.out = "no undoable entry"
    /\ Len(J) >= 1 /\ J[1].ActionID = cli.id /\ J[1].Success
    /\ ~IsZero(J[1].UndoneAt) /\ ~J[1].UndoSuccess
    /\ cli.passed[1] = 1

\* the state an action aims at
Target(id) ==
    CASE id = "set-high-performance" -> highPerformanceGUID
      [] id = "disable-hags" -> "1"
      [] id = "disable-game-mode" -> "0"
      [] OTHER -> ""

\* the journal holds k >= 2 successful entries of one action and nothing
\* else, the later ones made with the setting at the target; after the last
\* Apply the undo command was run once for each, with success
AppliedThenUndone ==
    /\ cli.pc = "idle" /\ ~cli.mixed
    /\ Len(J) >= 2
    /\ \A i \in 1..Len(J) :
          /\ J[i].ActionID = J[1].ActionID /\ J[i].Success
          /\ i >= 2 => J[i].UndoInfo = Target(J[1].ActionID)
          /\ J[i].UndoSuccess /\ cli.passed[i] = 1

\* C30: after k >= 2 successful applications of an action and the undo of
\* all k entries in the order the undo command takes them, the setting of
\* the action has the value it had before the first application.
C30_RepeatedReversible ==
    AppliedThenUndone =>
        SettingOf(J[1].ActionID, sys.cur) = SettingOf(J[1].ActionID, sys.atApply[1])

====
